---- MODULE Spec2Model ----
(***************************************************************************)
(* Model of marktex (src/src/marktex/cli.py): path resolution, repository  *)
(* location, the converter invocations and the build pipeline driven by    *)
(* main().                                                                 *)
(*                                                                         *)
(* Three specifications share this module:                                 *)
(*   SpecPaths   get_mirror_paths / get_relative_path_from_root applied to *)
(*               bounded source paths and repository roots;                *)
(*   SpecLocate  find_repo_root walking up a bounded directory tree;       *)
(*   Spec        main(): validation, dependency probe, pipeline stages.    *)
(***************************************************************************)
EXTENDS Integers, Sequences, FiniteSets, TLC

(***************************************************************************)
(* Bounds                                                                  *)
(***************************************************************************)
\* longest root-relative source path (in segments) enumerated by SpecPaths
MaxDepth == 3
\* deepest start directory enumerated by SpecLocate
MaxTreeDepth == 3
\* most marker entries placed in the tree enumerated by SpecLocate
MaxMarkers == 2
\* invocations of main per behaviour of Spec
MaxRuns == 2

(***************************************************************************)
(* pathlib values.  A file name is the pair (stem, suffix) that            *)
(* PurePath.stem / PurePath.suffix split it into; a path is a flag for the *)
(* anchor "/" and the sequence of its names (PurePath.parts without the    *)
(* anchor).                                                                *)
(***************************************************************************)
Name(stem, suffix) == [stem |-> stem, suffix |-> suffix]

Dir(stem) == Name(stem, "")

Path(abs, parts) == [kind |-> "path", abs |-> abs, parts |-> parts]

AbsPath(parts) == Path(TRUE, parts)

RelPath(parts) == Path(FALSE, parts)

None == [kind |-> "None"]

Raise(exc) == [kind |-> "raise", exc |-> exc]

IsPath(p) == p.kind = "path"

IsRaise(p) == p.kind = "raise"

\* the process's current working directory (Path.cwd())
Cwd == AbsPath(<<Dir("repo")>>)

\* PurePath.__truediv__: an absolute right operand replaces the left one
PathJoin(p, q) ==
    IF q.abs THEN q ELSE Path(p.abs, p.parts \o q.parts)

\* PurePath.parent: the anchor and the empty relative path are their own parent
PathParent(p) ==
    IF p.parts = <<>> THEN p
    ELSE Path(p.abs, SubSeq(p.parts, 1, Len(p.parts) - 1))

\* Path.resolve() on a filesystem without symlinks or "..": a relative path
\* is anchored at the current working directory
PathResolve(p) ==
    IF p.abs THEN p ELSE PathJoin(Cwd, p)

\* PurePath.with_suffix: ValueError on an empty name, else the last name's
\* suffix is replaced
with_suffix(p, suffix) ==
    IF p.parts = <<>> THEN Raise("ValueError")
    ELSE Path(p.abs, [p.parts EXCEPT ![Len(p.parts)] = Name(@.stem, suffix)])

IsPrefix(s, t) ==
    /\ Len(s) <= Len(t)
    /\ SubSeq(t, 1, Len(s)) = s

\* PurePath.relative_to: ValueError unless other is an ancestor (or equal)
relative_to(p, other) ==
    IF p.abs = other.abs /\ IsPrefix(other.parts, p.parts)
    THEN RelPath(SubSeq(p.parts, Len(other.parts) + 1, Len(p.parts)))
    ELSE Raise("ValueError")

SpecialFolders == {Dir("PDF"), Dir("TEX"), Dir("recent")}

(***************************************************************************)
(* get_relative_path_from_root (cli.py 87-108)                             *)
(***************************************************************************)
\* faulty variant: the leading segment is dropped whenever there is one
get_relative_path_from_root_StripAny(file_path, repo_root) ==
    LET rel_path == relative_to(PathResolve(file_path), PathResolve(repo_root))
    IN  IF IsRaise(rel_path) THEN file_path
        ELSE IF rel_path.parts # <<>>
             THEN RelPath(Tail(rel_path.parts))
             ELSE RelPath(<<>>)

\* faulty variant: 'recent' is not treated as a special folder
get_relative_path_from_root_NoRecent(file_path, repo_root) ==
    LET rel_path == relative_to(PathResolve(file_path), PathResolve(repo_root))
    IN  IF IsRaise(rel_path) THEN file_path
        ELSE IF rel_path.parts # <<>> /\ rel_path.parts[1] \in {Dir("PDF"), Dir("TEX")}
             THEN RelPath(Tail(rel_path.parts))
             ELSE RelPath(rel_path.parts)

\* faulty variant: outside the root only the file's name is kept
get_relative_path_from_root_NameOnly(file_path, repo_root) ==
    LET rel_path == relative_to(PathResolve(file_path), PathResolve(repo_root))
    IN  IF IsRaise(rel_path)
        THEN IF file_path.parts = <<>> THEN file_path
             ELSE RelPath(<<file_path.parts[Len(file_path.parts)]>>)
        ELSE IF rel_path.parts # <<>> /\ rel_path.parts[1] \in SpecialFolders
             THEN RelPath(Tail(rel_path.parts))
             ELSE RelPath(rel_path.parts)

get_relative_path_from_root(file_path, repo_root) ==
    LET rel_path == relative_to(PathResolve(file_path), PathResolve(repo_root))
    IN  IF IsRaise(rel_path)
        THEN file_path                      \* except ValueError: return file_path
        ELSE IF rel_path.parts # <<>> /\ rel_path.parts[1] \in SpecialFolders
             THEN RelPath(Tail(rel_path.parts))
             ELSE RelPath(rel_path.parts)   \* Path(*parts) / Path('.')

(***************************************************************************)
(* get_mirror_paths (cli.py 111-141).  The result is the dictionary        *)
(* {'pdf','tex','recent'}, or the ValueError that with_suffix raises when  *)
(* the relative path is empty.                                             *)
(***************************************************************************)
Paths(pdf, tex, rec) ==
    IF IsRaise(pdf) THEN pdf
    ELSE IF IsRaise(tex) THEN tex
    ELSE [kind |-> "paths", pdf |-> pdf, tex |-> tex, recent |-> rec]

get_mirror_paths(source_file, repo_root) ==
    IF repo_root = None
    THEN Paths(with_suffix(source_file, ".pdf"),
               with_suffix(source_file, ".tex"),
               None)
    ELSE LET rel_path == get_relative_path_from_root(source_file, repo_root)
             pdf_rel  == with_suffix(rel_path, ".pdf")
             tex_rel  == with_suffix(rel_path, ".tex")
         IN  IF IsRaise(pdf_rel) THEN pdf_rel
             ELSE Paths(PathJoin(PathJoin(repo_root, RelPath(<<Dir("PDF")>>)), pdf_rel),
                        PathJoin(PathJoin(repo_root, RelPath(<<Dir("TEX")>>)), tex_rel),
                        PathJoin(repo_root, RelPath(<<Dir("recent")>>)))

(***************************************************************************)
(* State                                                                   *)
(***************************************************************************)
VARIABLES
    source_file,    \* build_markdown_outputs / get_mirror_paths: source path
    repo_root,      \* repository root, or None (simple mode)
    paths,          \* the dictionary returned by get_mirror_paths
    org_source,     \* SpecPaths: an already-organized source resolved again
    org_paths,      \* SpecPaths: get_mirror_paths(org_source, repo_root)
    ppc,            \* SpecPaths: position of the resolution scenario
    fs,             \* the filesystem: existing path -> entry
    start_path,     \* SpecLocate: argument of find_repo_root
    located,        \* SpecLocate: value returned by find_repo_root
    lpc,            \* SpecLocate: position
    installed,      \* the required tools that `which` finds
    args,           \* main: the parsed command line
    pc,             \* main: position in main / build_markdown_outputs
    input_file,     \* main: args.input.resolve()
    mode,           \* main: 'both', 'pdf-only' or 'tex-only'
    procs,          \* external processes run by this invocation, in order
    calls,          \* pipeline functions called by this invocation, with results
    errors,         \* messages this invocation printed to stderr
    reported,       \* missing-dependency list this invocation printed, or None
    last_check,     \* list printed by the preceding --check-deps invocation
    ret,            \* main's return value, or the exception that left it
    tmpdir,         \* compile_tex_to_pdf: the temporary directory's path
    result,         \* compile_tex_to_pdf: latexmk's exit code
    runs,           \* number of the current invocation
    latest,         \* SpecRecent: file name -> outcome of the last successful build of it
    inv,            \* SpecConc: each concurrent invocation's compile_tex_to_pdf call
    halves,         \* SpecConc: final PDF path -> invocations whose bytes its halves hold
    same_fs,        \* SpecConc: temporary and output directories share a filesystem
    mover           \* SpecConc: the invocation whose shutil.move returned last, or 0

pathVars == <<source_file, repo_root, paths, org_source, org_paths, ppc>>

locVars == <<start_path, located, lpc>>

mainVars == <<installed, args, pc, input_file, mode, procs, calls, errors,
              reported, last_check, ret, tmpdir, result, runs>>

seqVars == <<latest>>

concVars == <<inv, halves, same_fs, mover>>

vars == <<pathVars, fs, locVars, mainVars, seqVars, concVars>>

IdleRecent == latest = <<>>

IdleConc ==
    /\ inv = <<>>
    /\ halves = <<>>
    /\ same_fs = TRUE
    /\ mover = 0

IdleMain ==
    /\ installed = {}
    /\ args = None
    /\ pc = "idle"
    /\ input_file = None
    /\ mode = "none"
    /\ procs = <<>>
    /\ calls = <<>>
    /\ errors = <<>>
    /\ reported = None
    /\ last_check = None
    /\ ret = None
    /\ tmpdir = None
    /\ result = 0
    /\ runs = 0

IdleLocate ==
    /\ start_path = None
    /\ located = None
    /\ lpc = "idle"

(***************************************************************************)
(* Filesystem                                                              *)
(***************************************************************************)
DirEntry == [type |-> "dir", by |-> "mkdir", run |-> 0, whole |-> TRUE]

\* a regular file: who wrote it, in which invocation, completely or not
FileEntry(by, run, whole) == [type |-> "file", by |-> by, run |-> run, whole |-> whole]

\* Path.exists()
Exists(p) == p \in DOMAIN fs

\* Path.is_file()
IsFile(p) == Exists(p) /\ fs[p].type = "file"

\* Path.is_dir()
IsDir(p) == Exists(p) /\ fs[p].type = "dir"

\* Path.mkdir(parents=True, exist_ok=True)
Mkdir(f, p) ==
    LET new == {AbsPath(SubSeq(p.parts, 1, k)) : k \in 0..Len(p.parts)} \ DOMAIN f
    IN  [q \in DOMAIN f \cup new |-> IF q \in new THEN DirEntry ELSE f[q]]

\* the file at p is created or overwritten with entry
WriteFile(f, p, entry) ==
    [q \in DOMAIN f \cup {p} |-> IF q = p THEN entry ELSE f[q]]

\* p lies in or below directory d
Below(p, d) == p.abs = d.abs /\ IsPrefix(d.parts, p.parts)

\* shutil.rmtree
Rmtree(f, d) ==
    [q \in {q \in DOMAIN f : ~Below(q, d)} |-> f[q]]

\* shutil.copy(src, dst) of an existing file
CopyFile(f, src, dst) == WriteFile(f, dst, f[src])

\* shutil.copytree(src, dst): src and everything below it appears under dst
CopyTree(f, src, dst) ==
    LET below == {q \in DOMAIN f : Below(q, src)}
        Target(q) == PathJoin(dst, relative_to(q, src))
        new == {Target(q) : q \in below}
    IN  [t \in DOMAIN f \cup new |->
            IF t \in new THEN f[CHOOSE q \in below : Target(q) = t] ELSE f[t]]

\* shutil.move(src, dst) of an existing file
MoveFile(f, src, dst) ==
    LET g == WriteFile(f, dst, f[src])
    IN  [q \in DOMAIN g \ {src} |-> g[q]]

(***************************************************************************)
(* find_repo_root (cli.py 66-84)                                           *)
(***************************************************************************)
HasMarker(dir, names) ==
    \E m \in names : Exists(PathJoin(dir, RelPath(<<Dir(m)>>)))

RECURSIVE WalkUp(_, _)
\* the while loop of find_repo_root from directory current
WalkUp(current, names) ==
    IF current = PathParent(current) THEN None
    ELSE IF HasMarker(current, names) THEN current
    ELSE WalkUp(PathParent(current), names)

\* faulty variant: the TEX folder is not recognised as a marker
find_repo_root_NoTex(start) ==
    WalkUp(PathResolve(start), {"PDF", ".git"})

find_repo_root(start) ==
    WalkUp(PathResolve(start), {"PDF", "TEX", ".git"})

(***************************************************************************)
(* SpecPaths: get_mirror_paths over bounded inputs                         *)
(***************************************************************************)
SeqsUpTo(S, n) == UNION {[1..k -> S] : k \in 0..n}

RepoDir == AbsPath(<<Dir("repo")>>)

\* names a root-relative source path is built from
RelNames == SpecialFolders \cup {Dir("notes"), Name("plan", ".md"), Name("PDF", ".md")}

RelSources == SeqsUpTo(RelNames, MaxDepth)

\* absolute sources under /repo, the same ones given relative to the working
\* directory, and sources outside every enumerated root
SourceFiles ==
    {PathJoin(RepoDir, RelPath(r)) : r \in RelSources}
    \cup {RelPath(r) : r \in RelSources}
    \cup {AbsPath(<<Dir("other"), Name("plan", ".md")>>),
          AbsPath(<<Dir("other"), Dir("PDF"), Name("plan", ".md")>>)}

RepoRoots == {None, RepoDir, RelPath(<<>>), AbsPath(<<Dir("repo"), Dir("notes")>>)}

InitPaths ==
    /\ source_file \in SourceFiles
    /\ repo_root \in RepoRoots
    /\ paths = None
    /\ org_source = None
    /\ org_paths = None
    /\ ppc = "input"
    /\ fs = <<>>
    /\ IdleLocate
    /\ IdleMain
    /\ IdleRecent
    /\ IdleConc

\* paths = get_mirror_paths(source_file, repo_root)
GetMirrorPaths ==
    /\ ppc = "input"
    /\ paths' = get_mirror_paths(source_file, repo_root)
    /\ ppc' = "resolved"
    /\ UNCHANGED <<source_file, repo_root, org_source, org_paths, fs, locVars, mainVars,
                   seqVars, concVars>>

\* the source's location relative to the root, when it lies under the root
RelToRoot(file_path, root) == relative_to(PathResolve(file_path), PathResolve(root))

\* the same source found inside special folder F of the root is resolved
ResolveOrganized(F) ==
    /\ ppc = "resolved"
    /\ repo_root # None
    /\ IsPath(RelToRoot(source_file, repo_root))
    /\ org_source' = PathJoin(PathJoin(repo_root, RelPath(<<F>>)),
                              RelToRoot(source_file, repo_root))
    /\ org_paths' = get_mirror_paths(org_source', repo_root)
    /\ ppc' = "organized"
    /\ UNCHANGED <<source_file, repo_root, paths, fs, locVars, mainVars, seqVars, concVars>>

\* a path produced by the first resolution is resolved again
ResolveAgain(k) ==
    /\ ppc = "resolved"
    /\ repo_root # None
    /\ paths.kind = "paths"
    /\ org_source' = (IF k = "tex" THEN paths.tex ELSE paths.pdf)
    /\ org_paths' = get_mirror_paths(org_source', repo_root)
    /\ ppc' = "again"
    /\ UNCHANGED <<source_file, repo_root, paths, fs, locVars, mainVars, seqVars, concVars>>

NextPaths ==
    \/ GetMirrorPaths
    \/ \E F \in SpecialFolders : ResolveOrganized(F)
    \/ \E k \in {"tex", "pdf"} : ResolveAgain(k)

SpecPaths == InitPaths /\ [][NextPaths]_vars

(***************************************************************************)
(* check_dependencies (cli.py 12-36) and determine_source_type (39-63)     *)
(***************************************************************************)
\* the four probes, in the order main runs them
RequiredTools == <<"pandoc", "pandoc-mermaid", "latexmk", "mmdc">>

Which(tool) == [cmd |-> "which", arg |-> tool]

\* `which tool` exits non-zero when the tool is not installed; each entry of
\* missing is the message for one tool, identified here by the tool's name
Probe(tools) ==
    [missing |-> SelectSeq(tools, LAMBDA t : t \notin installed),
     probes  |-> [i \in 1..Len(tools) |-> Which(tools[i])]]

\* faulty variant: the probe for mmdc is left out
check_dependencies_NoMmdc == Probe(<<"pandoc", "pandoc-mermaid", "latexmk">>)

check_dependencies == Probe(RequiredTools)

Str(v) == [kind |-> "str", value |-> v]

determine_source_type(file_path) ==
    LET suffix == file_path.parts[Len(file_path.parts)].suffix
    IN  IF suffix = ".md" THEN Str("markdown")
        ELSE IF suffix = ".tex" THEN Raise("NotImplementedError")
        ELSE Raise("ValueError")

(***************************************************************************)
(* build_markdown_outputs (cli.py 295-344): where control goes when a      *)
(* stage has returned ok, and when a convenience copy has been made        *)
(***************************************************************************)
\* faulty variant: the result of convert_md_to_tex is ignored in mode 'both'
build_markdown_outputs_NoCheck(m, stage, ok, recent_dir) ==
    IF stage = "convert_md_to_tex" /\ m = "both" THEN "compile"
    ELSE IF ~ok THEN "return_False"
    ELSE IF recent_dir = None THEN "return_True"
    ELSE IF stage = "convert_md_to_pdf_direct" THEN "copy_pdf"
    ELSE "copy_tex"

\* faulty variant: mode 'pdf-only' goes on to the compile stage
build_markdown_outputs_AlsoCompile(m, stage, ok, recent_dir) ==
    IF ~ok THEN "return_False"
    ELSE IF stage \in {"convert_md_to_tex", "convert_md_to_pdf_direct"}
            /\ m \in {"both", "pdf-only"} THEN "compile"
    ELSE IF recent_dir = None THEN "return_True"
    ELSE IF stage = "convert_md_to_pdf_direct" THEN "copy_pdf"
    ELSE "copy_tex"

build_markdown_outputs(m, stage, ok, recent_dir) ==
    IF ~ok THEN "return_False"
    ELSE IF stage = "convert_md_to_tex" /\ m = "both" THEN "compile"
    ELSE IF recent_dir = None THEN "return_True"
    ELSE IF stage = "convert_md_to_pdf_direct" THEN "copy_pdf"
    ELSE "copy_tex"

\* faulty variant: the PDF is never copied to the convenience folder
AfterCopy_NoPdf(m, file_type) == "return_True"

\* after copy_to_recent(..., file_type): mode 'both' copies the PDF next
AfterCopy(m, file_type) ==
    IF m = "both" /\ file_type = "tex" THEN "copy_pdf" ELSE "return_True"

Return(code) == [kind |-> "return", code |-> code]

\* main's last lines (cli.py 486-491) once build_markdown_outputs is at next
Continue(next, stage_error) ==
    IF next = "return_True"
    THEN /\ pc' = "done"
         /\ ret' = Return(0)
         /\ errors' = errors
    ELSE IF next = "return_False"
    THEN /\ pc' = "done"
         /\ ret' = Return(1)
         /\ errors' = errors \o <<stage_error, "Build failed">>
    ELSE /\ pc' = next
         /\ ret' = ret
         /\ errors' = errors

\* an exception nobody catches leaves main
Uncaught(exc) ==
    /\ pc' = "done"
    /\ ret' = Raise(exc)
    /\ errors' = errors

Call(fn, res) == [fn |-> fn, result |-> res]

\* the last entry of calls gets the value the call ended with
Ended(res) == [calls EXCEPT ![Len(calls)].result = res]

BoolStr(b) == IF b THEN "True" ELSE "False"

(***************************************************************************)
(* tempfile.TemporaryDirectory (cli.py 235): how == "return" or "raise"    *)
(***************************************************************************)
TmpDirPath == AbsPath(<<Dir("tmp"), Dir("tmpdir")>>)

\* faulty variant: the directory is removed only when the block is left by return
ExitTemporaryDirectory_ReturnOnly(f, dir, how) ==
    IF how = "return" THEN Rmtree(f, dir) ELSE f

\* leaving the with block removes the directory on every exit
ExitTemporaryDirectory(f, dir, how) == Rmtree(f, dir)

(***************************************************************************)
(* SpecLocate: find_repo_root over bounded directory trees                 *)
(***************************************************************************)
RECURSIVE SetsUpTo(_, _)
\* the subsets of S with at most n elements
SetsUpTo(S, n) ==
    IF n = 0 THEN {{}}
    ELSE LET smaller == SetsUpTo(S, n - 1)
         IN  smaller \cup {x \cup {e} : x \in smaller, e \in S}

TreeNames == {Dir("repo"), Dir("notes")}

\* every directory of the tree, the filesystem root included
TreeDirs == {AbsPath(s) : s \in SeqsUpTo(TreeNames, MaxTreeDepth)}

MarkerNames == {"PDF", "TEX", ".git"}

MarkerEntries == {PathJoin(d, RelPath(<<Dir(m)>>)) : d \in TreeDirs, m \in MarkerNames}

StartPaths == TreeDirs \cup {RelPath(<<>>), RelPath(<<Dir("notes")>>)}

InitLocate ==
    /\ \E E \in SetsUpTo(MarkerEntries, MaxMarkers) :
          fs = [p \in TreeDirs \cup E |-> DirEntry]
    /\ start_path \in StartPaths
    /\ located = None
    /\ lpc = "input"
    /\ source_file = None
    /\ repo_root = None
    /\ paths = None
    /\ org_source = None
    /\ org_paths = None
    /\ ppc = "idle"
    /\ IdleMain
    /\ IdleRecent
    /\ IdleConc

\* located = find_repo_root(start_path)
FindRepoRoot ==
    /\ lpc = "input"
    /\ located' = find_repo_root(start_path)
    /\ lpc' = "located"
    /\ UNCHANGED <<start_path, fs, pathVars, mainVars, seqVars, concVars>>

NextLocate == FindRepoRoot

SpecLocate == InitLocate /\ [][NextLocate]_vars

(***************************************************************************)
(* Spec: invocations of main                                               *)
(***************************************************************************)
UserFile == FileEntry("user", 0, TRUE)

PlanMd == AbsPath(<<Dir("repo"), Dir("notes"), Name("plan", ".md")>>)

\* entries every enumerated filesystem has
BaseEntries ==
    [p \in {AbsPath(<<>>), RepoDir, AbsPath(<<Dir("repo"), Dir("notes")>>),
            AbsPath(<<Dir("tmp")>>)} |-> DirEntry]
    @@ [p \in {PlanMd,
               AbsPath(<<Dir("repo"), Dir("notes"), Name("data", ".txt")>>),
               AbsPath(<<Dir("repo"), Dir("notes"), Name("old", ".tex")>>),
               AbsPath(<<Dir("tmp"), Name("x", ".md")>>)} |-> UserFile]

\* entries a filesystem may have in addition
GitEntries == [p \in {AbsPath(<<Dir("repo"), Dir(".git")>>)} |-> DirEntry]

OldPdfEntries ==
    [p \in {AbsPath(<<Dir("repo"), Dir("PDF")>>),
            AbsPath(<<Dir("repo"), Dir("PDF"), Dir("notes")>>)} |-> DirEntry]
    @@ [p \in {AbsPath(<<Dir("repo"), Dir("PDF"), Dir("notes"), Name("plan", ".pdf")>>)}
          |-> UserFile]

MermaidSrc == PathJoin(Cwd, RelPath(<<Dir("mermaid-images")>>))

MermaidEntries ==
    [p \in {MermaidSrc} |-> DirEntry]
    @@ [p \in {PathJoin(MermaidSrc, RelPath(<<Name("d", ".png")>>))} |-> UserFile]

Empty == [p \in {} |-> DirEntry]

Filesystems ==
    {BaseEntries @@ g @@ o @@ m :
        g \in {Empty, GitEntries}, o \in {Empty, OldPdfEntries}, m \in {Empty, MermaidEntries}}

Inputs ==
    {None,
     RelPath(<<Dir("notes"), Name("plan", ".md")>>),
     AbsPath(<<Dir("repo"), Dir("notes")>>),
     AbsPath(<<Dir("repo"), Name("missing", ".md")>>),
     AbsPath(<<Dir("repo"), Dir("notes"), Name("data", ".txt")>>),
     AbsPath(<<Dir("repo"), Dir("notes"), Name("old", ".tex")>>),
     AbsPath(<<Dir("tmp"), Name("x", ".md")>>)}

RepoRootArgs == {None, RelPath(<<>>), AbsPath(<<Dir("nodir")>>), AbsPath(<<Dir("tmp")>>)}

ArgSets ==
    [kind : {"args"}, input : Inputs, pdf_only : BOOLEAN, tex_only : BOOLEAN,
     repo_root : RepoRootArgs, check_deps : BOOLEAN]

ToSet(seq) == {seq[i] : i \in 1..Len(seq)}

Init ==
    /\ fs \in Filesystems
    /\ installed \in SUBSET ToSet(RequiredTools)
    /\ args = None
    /\ pc = "start"
    /\ input_file = None
    /\ mode = "none"
    /\ procs = <<>>
    /\ calls = <<>>
    /\ errors = <<>>
    /\ reported = None
    /\ last_check = None
    /\ ret = None
    /\ tmpdir = None
    /\ result = 0
    /\ runs = 1
    /\ source_file = None
    /\ repo_root = None
    /\ paths = None
    /\ org_source = None
    /\ org_paths = None
    /\ ppc = "idle"
    /\ IdleLocate
    /\ IdleRecent
    /\ IdleConc

idleVars == <<org_source, org_paths, ppc, locVars, installed, last_check, runs,
              seqVars, concVars>>

\* args = parser.parse_args()  (cli.py 414)
Main_Parse ==
    /\ pc = "start"
    /\ args' \in ArgSets
    /\ pc' = "parsed"
    /\ UNCHANGED <<idleVars, fs, input_file, mode, procs, calls, errors, reported,
                   ret, tmpdir, result, source_file, repo_root, paths>>

MissingList(missing) == [kind |-> "missing", tools |-> missing]

\* --check-deps  (cli.py 417-426)
Main_CheckDeps ==
    /\ pc = "parsed"
    /\ args.check_deps
    /\ LET deps == check_dependencies
       IN  /\ procs' = procs \o deps.probes
           /\ IF deps.missing = <<>>
              THEN /\ ret' = Return(0)
                   /\ reported' = reported
                   /\ errors' = errors
              ELSE /\ ret' = Return(1)
                   /\ reported' = MissingList(deps.missing)
                   /\ errors' = Append(errors, "Missing dependencies")
    /\ pc' = "done"
    /\ UNCHANGED <<idleVars, fs, args, input_file, mode, calls, tmpdir, result,
                   source_file, repo_root, paths>>

\* validate the input file  (cli.py 429-440)
Main_ValidateInput ==
    /\ pc = "parsed"
    /\ ~args.check_deps
    /\ IF args.input = None
       THEN /\ pc' = "done"
            /\ ret' = Return(1)
            /\ UNCHANGED <<input_file, errors>>
       ELSE /\ input_file' = PathResolve(args.input)
            /\ IF ~Exists(input_file')
               THEN /\ pc' = "done"
                    /\ ret' = Return(1)
                    /\ errors' = Append(errors, "file not found")
               ELSE IF ~IsFile(input_file')
               THEN /\ pc' = "done"
                    /\ ret' = Return(1)
                    /\ errors' = Append(errors, "not a file")
               ELSE /\ pc' = "dependencies"
                    /\ UNCHANGED <<ret, errors>>
    /\ UNCHANGED <<idleVars, fs, args, mode, procs, calls, reported, tmpdir, result,
                   source_file, repo_root, paths>>

\* check dependencies before proceeding  (cli.py 443-449)
Main_Dependencies ==
    /\ pc = "dependencies"
    /\ LET deps == check_dependencies
       IN  /\ procs' = procs \o deps.probes
           /\ IF deps.missing = <<>>
              THEN /\ pc' = "flags"
                   /\ UNCHANGED <<ret, reported, errors>>
              ELSE /\ pc' = "done"
                   /\ ret' = Return(1)
                   /\ reported' = MissingList(deps.missing)
                   /\ errors' = Append(errors, "Missing required dependencies")
    /\ UNCHANGED <<idleVars, fs, args, input_file, mode, calls, tmpdir, result,
                   source_file, repo_root, paths>>

\* mutually exclusive flags and the output mode  (cli.py 452-462)
Main_Flags ==
    /\ pc = "flags"
    /\ IF args.pdf_only /\ args.tex_only
       THEN /\ pc' = "done"
            /\ ret' = Return(1)
            /\ errors' = Append(errors, "mutually exclusive")
            /\ mode' = mode
       ELSE /\ mode' = (IF args.pdf_only THEN "pdf-only"
                        ELSE IF args.tex_only THEN "tex-only" ELSE "both")
            /\ pc' = "source_type"
            /\ UNCHANGED <<ret, errors>>
    /\ UNCHANGED <<idleVars, fs, args, input_file, procs, calls, reported, tmpdir,
                   result, source_file, repo_root, paths>>

\* determine_source_type  (cli.py 465-469)
Main_SourceType ==
    /\ pc = "source_type"
    /\ LET source_type == determine_source_type(input_file)
       IN  IF IsRaise(source_type)
           THEN /\ pc' = "done"
                /\ ret' = Return(1)
                /\ errors' = Append(errors, source_type.exc)
           ELSE /\ pc' = "repo_root"
                /\ UNCHANGED <<ret, errors>>
    /\ UNCHANGED <<idleVars, fs, args, input_file, mode, procs, calls, reported,
                   tmpdir, result, source_file, repo_root, paths>>

\* the repository root, then build_markdown_outputs up to get_mirror_paths
\* (cli.py 472-482, 310)
Main_RepoRoot ==
    /\ pc = "repo_root"
    /\ LET root == IF args.repo_root # None
                   THEN PathResolve(args.repo_root)
                   ELSE find_repo_root(PathParent(input_file))
       IN  IF args.repo_root # None /\ ~IsDir(root)
           THEN /\ pc' = "done"
                /\ ret' = Return(1)
                /\ errors' = Append(errors, "--repo-root must be a directory")
                /\ UNCHANGED <<source_file, repo_root, paths>>
           ELSE /\ source_file' = input_file
                /\ repo_root' = root
                /\ paths' = get_mirror_paths(input_file, root)
                /\ IF IsRaise(paths')
                   THEN Uncaught(paths'.exc)
                   ELSE /\ pc' = "build"
                        /\ UNCHANGED <<ret, errors>>
    /\ UNCHANGED <<idleVars, fs, args, input_file, mode, procs, calls, reported,
                   tmpdir, result>>

Pandoc(to) == [cmd |-> "pandoc", arg |-> to]

Latexmk == [cmd |-> "latexmk", arg |-> "-xelatex"]

\* The converter is an external process: it exits zero or non-zero, and in
\* either case it may or may not have left a file at the -o path (whole only
\* when it exited zero).
ConverterWrites(f, out, exit, wrote) ==
    IF wrote THEN WriteFile(f, out, FileEntry("pandoc", runs, exit = 0)) ELSE f

\* convert_md_to_tex(source_file, paths['tex'])  (cli.py 144-179)
ConvertMdToTex(exit, wrote) ==
    /\ pc = "build"
    /\ mode \in {"tex-only", "both"}
    /\ fs' = ConverterWrites(Mkdir(fs, PathParent(paths.tex)), paths.tex, exit, wrote)
    /\ procs' = Append(procs, Pandoc("latex"))
    /\ calls' = Append(calls, Call("convert_md_to_tex", BoolStr(exit = 0)))
    /\ Continue(build_markdown_outputs(mode, "convert_md_to_tex", exit = 0, paths.recent),
                "Error converting Markdown to LaTeX")
    /\ UNCHANGED <<idleVars, args, input_file, mode, reported, tmpdir, result,
                   source_file, repo_root, paths>>

\* convert_md_to_pdf_direct(source_file, paths['pdf'])  (cli.py 182-215)
ConvertMdToPdfDirect(exit, wrote) ==
    /\ pc = "build"
    /\ mode = "pdf-only"
    /\ fs' = ConverterWrites(Mkdir(fs, PathParent(paths.pdf)), paths.pdf, exit, wrote)
    /\ procs' = Append(procs, Pandoc("pdf"))
    /\ calls' = Append(calls, Call("convert_md_to_pdf_direct", BoolStr(exit = 0)))
    /\ Continue(build_markdown_outputs(mode, "convert_md_to_pdf_direct", exit = 0, paths.recent),
                "Error converting Markdown to PDF")
    /\ UNCHANGED <<idleVars, args, input_file, mode, reported, tmpdir, result,
                   source_file, repo_root, paths>>

\* compile_tex_to_pdf(paths['tex'], paths['pdf']) up to the creation of the
\* temporary directory  (cli.py 228-236)
Compile_Enter ==
    /\ pc = "compile"
    /\ tmpdir' = TmpDirPath
    /\ fs' = Mkdir(Mkdir(fs, PathParent(paths.pdf)), tmpdir')
    /\ calls' = Append(calls, Call("compile_tex_to_pdf", "running"))
    /\ pc' = "compile_copy"
    /\ UNCHANGED <<idleVars, args, input_file, mode, procs, errors, reported, ret,
                   result, source_file, repo_root, paths>>

TempTex == PathJoin(tmpdir, RelPath(<<paths.tex.parts[Len(paths.tex.parts)]>>))

\* faulty variant: the compiler's PDF is written at the final path
TempPdf_InPlace == paths.pdf

TempPdf == with_suffix(TempTex, ".pdf")

TempAux == with_suffix(TempTex, ".aux")

\* shutil.copy(tex_file, temp_tex)  (cli.py 237-240)
Compile_CopyTex ==
    /\ pc = "compile_copy"
    /\ IF IsFile(paths.tex)
       THEN /\ fs' = CopyFile(fs, paths.tex, TempTex)
            /\ pc' = "compile_mermaid"
            /\ UNCHANGED <<calls, ret, errors>>
       ELSE /\ fs' = ExitTemporaryDirectory(fs, tmpdir, "raise")
            /\ calls' = Ended("raise")
            /\ Uncaught("FileNotFoundError")
    /\ UNCHANGED <<idleVars, args, input_file, mode, procs, reported, tmpdir, result,
                   source_file, repo_root, paths>>

\* copy mermaid-images if they exist  (cli.py 243-246); copytree can fail
Compile_CopyMermaid(ok) ==
    /\ pc = "compile_mermaid"
    /\ IF ~Exists(MermaidSrc)
       THEN /\ ok
            /\ pc' = "compile_run"
            /\ UNCHANGED <<fs, calls, ret, errors>>
       ELSE IF ok
       THEN /\ fs' = CopyTree(fs, MermaidSrc,
                              PathJoin(tmpdir, RelPath(<<Dir("mermaid-images")>>)))
            /\ pc' = "compile_run"
            /\ UNCHANGED <<calls, ret, errors>>
       ELSE /\ fs' = ExitTemporaryDirectory(fs, tmpdir, "raise")
            /\ calls' = Ended("raise")
            /\ Uncaught("shutil.Error")
    /\ UNCHANGED <<idleVars, args, input_file, mode, procs, reported, tmpdir, result,
                   source_file, repo_root, paths>>

\* subprocess.run(["latexmk", ...], cwd=tmpdir_path)  (cli.py 249-260): the
\* compiler writes its auxiliary files, and possibly the PDF, into tmpdir
Compile_Run(exit, produced) ==
    /\ pc = "compile_run"
    /\ procs' = Append(procs, Latexmk)
    /\ result' = exit
    /\ LET aux == WriteFile(fs, TempAux, FileEntry("latexmk", runs, TRUE))
       IN  fs' = IF produced
                 THEN WriteFile(aux, TempPdf, FileEntry("latexmk", runs, exit = 0))
                 ELSE aux
    /\ pc' = "compile_ran"
    /\ UNCHANGED <<idleVars, args, input_file, mode, calls, errors, reported, ret,
                   tmpdir, source_file, repo_root, paths>>

\* faulty variant: the PDF is moved whatever the compiler's exit code was
PromotePdf_Always(f, exit, temp_pdf, output_pdf) ==
    IF temp_pdf \in DOMAIN f THEN MoveFile(f, temp_pdf, output_pdf) ELSE f

\* what the try block does to the final PDF path (cli.py 248-274):
\* shutil.move runs only after latexmk exited zero, and fails without
\* effect when the PDF is not in the temporary directory
PromotePdf(f, exit, temp_pdf, output_pdf) ==
    IF exit = 0 /\ temp_pdf \in DOMAIN f THEN MoveFile(f, temp_pdf, output_pdf) ELSE f

\* the rest of the try block and the end of the with block  (cli.py 262-274)
Compile_Finish ==
    /\ pc = "compile_ran"
    /\ LET moved == PromotePdf(fs, result, TempPdf, paths.pdf)
       IN  IF result # 0
           THEN \* except CalledProcessError: return False
                /\ fs' = ExitTemporaryDirectory(moved, tmpdir, "return")
                /\ calls' = Ended("False")
                /\ Continue(build_markdown_outputs(mode, "compile_tex_to_pdf", FALSE,
                                                   paths.recent),
                            "Error compiling LaTeX to PDF")
           ELSE IF Exists(TempPdf)
           THEN \* shutil.move(temp_pdf, output_pdf); return True
                /\ fs' = ExitTemporaryDirectory(moved, tmpdir, "return")
                /\ calls' = Ended("True")
                /\ Continue(build_markdown_outputs(mode, "compile_tex_to_pdf", TRUE,
                                                   paths.recent),
                            "Error compiling LaTeX to PDF")
           ELSE \* shutil.move raises: the PDF is not there
                /\ fs' = ExitTemporaryDirectory(moved, tmpdir, "raise")
                /\ calls' = Ended("raise")
                /\ Uncaught("FileNotFoundError")
    /\ UNCHANGED <<idleVars, args, input_file, mode, procs, reported, tmpdir, result,
                   source_file, repo_root, paths>>

\* faulty variant: the convenience folder is created before the existence check
copy_to_recent_MkdirFirst(f, file, recent_dir) ==
    IF file \notin DOMAIN f THEN Mkdir(f, recent_dir)
    ELSE CopyFile(Mkdir(f, recent_dir), file,
                  PathJoin(recent_dir, RelPath(<<file.parts[Len(file.parts)]>>)))

\* copy_to_recent(file, recent_dir, file_type)  (cli.py 277-292)
copy_to_recent(f, file, recent_dir) ==
    IF file \notin DOMAIN f THEN f
    ELSE CopyFile(Mkdir(f, recent_dir), file,
                  PathJoin(recent_dir, RelPath(<<file.parts[Len(file.parts)]>>)))

\* the convenience copies of build_markdown_outputs  (cli.py 322-342)
CopyToRecent(file_type) ==
    /\ pc = "copy_" \o file_type
    /\ fs' = copy_to_recent(fs, IF file_type = "tex" THEN paths.tex ELSE paths.pdf,
                            paths.recent)
    /\ calls' = Append(calls, Call("copy_to_recent", file_type))
    /\ Continue(AfterCopy(mode, file_type), "")
    /\ UNCHANGED <<idleVars, args, input_file, mode, procs, reported, tmpdir, result,
                   source_file, repo_root, paths>>

\* the user runs the tool again after a --check-deps invocation
Main_Again ==
    /\ pc = "done"
    /\ args.check_deps
    /\ runs < MaxRuns
    /\ runs' = runs + 1
    /\ last_check' = reported
    /\ pc' = "start"
    /\ args' = None
    /\ input_file' = None
    /\ mode' = "none"
    /\ procs' = <<>>
    /\ calls' = <<>>
    /\ errors' = <<>>
    /\ reported' = None
    /\ ret' = None
    /\ UNCHANGED <<fs, installed, tmpdir, result, source_file, repo_root, paths,
                   org_source, org_paths, ppc, locVars, seqVars, concVars>>

Next ==
    \/ Main_Parse
    \/ Main_CheckDeps
    \/ Main_ValidateInput
    \/ Main_Dependencies
    \/ Main_Flags
    \/ Main_SourceType
    \/ Main_RepoRoot
    \/ \E exit \in {0, 1}, wrote \in BOOLEAN : ConvertMdToTex(exit, wrote)
    \/ \E exit \in {0, 1}, wrote \in BOOLEAN : ConvertMdToPdfDirect(exit, wrote)
    \/ Compile_Enter
    \/ Compile_CopyTex
    \/ \E ok \in BOOLEAN : Compile_CopyMermaid(ok)
    \/ \E exit \in {0, 1}, produced \in BOOLEAN : Compile_Run(exit, produced)
    \/ Compile_Finish
    \/ \E file_type \in {"tex", "pdf"} : CopyToRecent(file_type)
    \/ Main_Again

Spec == Init /\ [][Next]_vars

(***************************************************************************)
(* SpecRecent: builds run one after the other in one repository, on two    *)
(* sources that share a file name                                          *)
(***************************************************************************)
SourceA == AbsPath(<<Dir("repo"), Dir("a"), Name("plan", ".md")>>)

SourceB == AbsPath(<<Dir("repo"), Dir("b"), Name("plan", ".md")>>)

RecentFs ==
    [p \in {AbsPath(<<>>), RepoDir, AbsPath(<<Dir("repo"), Dir(".git")>>),
            AbsPath(<<Dir("repo"), Dir("a")>>), AbsPath(<<Dir("repo"), Dir("b")>>),
            AbsPath(<<Dir("tmp")>>)} |-> DirEntry]
    @@ [p \in {SourceA, SourceB} |-> UserFile]

RepoArgSets ==
    [kind : {"args"}, input : {SourceA, SourceB}, pdf_only : BOOLEAN, tex_only : BOOLEAN,
     repo_root : {None}, check_deps : {FALSE}]

InitRecent ==
    /\ fs = RecentFs
    /\ installed = ToSet(RequiredTools)
    /\ args = None
    /\ pc = "start"
    /\ input_file = None
    /\ mode = "none"
    /\ procs = <<>>
    /\ calls = <<>>
    /\ errors = <<>>
    /\ reported = None
    /\ last_check = None
    /\ ret = None
    /\ tmpdir = None
    /\ result = 0
    /\ runs = 1
    /\ source_file = None
    /\ repo_root = None
    /\ paths = None
    /\ org_source = None
    /\ org_paths = None
    /\ ppc = "idle"
    /\ IdleLocate
    /\ IdleRecent
    /\ IdleConc

\* args = parser.parse_args()  (cli.py 414), for a build in the repository
Main_ParseRepo ==
    /\ pc = "start"
    /\ runs <= MaxRuns
    /\ args' \in RepoArgSets
    /\ pc' = "parsed"
    /\ UNCHANGED <<idleVars, fs, input_file, mode, procs, calls, errors, reported,
                   ret, tmpdir, result, source_file, repo_root, paths>>

\* the targets build_markdown_outputs produces in a mode  (cli.py 318-342)
BuildTargets(m, ps) ==
    IF m = "both" THEN {ps.tex, ps.pdf}
    ELSE IF m = "tex-only" THEN {ps.tex}
    ELSE {ps.pdf}

NoFile == [type |-> "none", by |-> "nobody", run |-> 0, whole |-> FALSE]

\* what a build that returned 0 leaves on record for the names of its targets
Recorded(old, f, build, targets) ==
    LET names == {RelPath(<<t.parts[Len(t.parts)]>>) : t \in targets}
        TargetOf(n) == CHOOSE t \in targets : RelPath(<<t.parts[Len(t.parts)]>>) = n
    IN  [n \in DOMAIN old \cup names |->
            IF n \in names
            THEN [build |-> build,
                  artifact |-> IF TargetOf(n) \in DOMAIN f THEN f[TargetOf(n)] ELSE NoFile]
            ELSE old[n]]

\* sys.exit(main())  (cli.py 494-495): the invocation ends, and the next one
\* starts from the filesystem it left
Main_Exit ==
    /\ pc = "done"
    /\ runs <= MaxRuns
    /\ latest' = IF ret = Return(0)
                 THEN Recorded(latest, fs, runs, BuildTargets(mode, paths))
                 ELSE latest
    /\ runs' = runs + 1
    /\ pc' = "start"
    /\ args' = None
    /\ input_file' = None
    /\ mode' = "none"
    /\ procs' = <<>>
    /\ calls' = <<>>
    /\ errors' = <<>>
    /\ reported' = None
    /\ ret' = None
    /\ tmpdir' = None
    /\ result' = 0
    /\ source_file' = None
    /\ repo_root' = None
    /\ paths' = None
    /\ UNCHANGED <<fs, installed, last_check, org_source, org_paths, ppc, locVars, concVars>>

NextRecent ==
    \/ Main_ParseRepo
    \/ Main_ValidateInput
    \/ Main_Dependencies
    \/ Main_Flags
    \/ Main_SourceType
    \/ Main_RepoRoot
    \/ \E exit \in {0, 1}, wrote \in BOOLEAN : ConvertMdToTex(exit, wrote)
    \/ \E exit \in {0, 1}, wrote \in BOOLEAN : ConvertMdToPdfDirect(exit, wrote)
    \/ Compile_Enter
    \/ Compile_CopyTex
    \/ \E ok \in BOOLEAN : Compile_CopyMermaid(ok)
    \/ \E exit \in {0, 1}, produced \in BOOLEAN : Compile_Run(exit, produced)
    \/ Compile_Finish
    \/ \E file_type \in {"tex", "pdf"} : CopyToRecent(file_type)
    \/ Main_Exit

SpecRecent == InitRecent /\ [][NextRecent]_vars

(***************************************************************************)
(* SpecConc: two invocations run compile_tex_to_pdf (cli.py 218-274) at    *)
(* the same time on one source tree                                        *)
(***************************************************************************)
Invocations == {1, 2}

Job(stem) ==
    [tex_file   |-> AbsPath(<<Dir("repo"), Dir("TEX"), Dir("notes"), Name(stem, ".tex")>>),
     output_pdf |-> AbsPath(<<Dir("repo"), Dir("PDF"), Dir("notes"), Name(stem, ".pdf")>>)]

Jobs == {Job("plan"), Job("draft")}

\* the tree once both conversions have written their LaTeX files
ConcFs ==
    [p \in {AbsPath(<<>>), RepoDir, AbsPath(<<Dir("repo"), Dir("TEX")>>),
            AbsPath(<<Dir("repo"), Dir("TEX"), Dir("notes")>>),
            AbsPath(<<Dir("tmp")>>)} |-> DirEntry]
    @@ [p \in {j.tex_file : j \in Jobs} |-> FileEntry("pandoc", 0, TRUE)]

TmpNames == {TmpDirPath, AbsPath(<<Dir("tmp"), Dir("tmpdir2")>>)}

\* tempfile.mkdtemp: a directory is created under a name nothing has yet
mkdtemp(f) == {d \in TmpNames : d \notin DOMAIN f}

InitConc ==
    /\ fs \in {ConcFs, ConcFs @@ MermaidEntries}
    /\ inv \in [Invocations -> {[pc |-> "compile", tex_file |-> j.tex_file,
                                 output_pdf |-> j.output_pdf, tmpdir |-> None,
                                 result |-> 0] : j \in Jobs}]
    /\ halves = <<>>
    /\ same_fs \in BOOLEAN
    /\ mover = 0
    /\ source_file = None
    /\ repo_root = None
    /\ paths = None
    /\ org_source = None
    /\ org_paths = None
    /\ ppc = "idle"
    /\ IdleLocate
    /\ IdleMain
    /\ IdleRecent

concFrame == <<pathVars, locVars, mainVars, seqVars, same_fs>>

\* output_pdf.parent.mkdir(...); with tempfile.TemporaryDirectory() as tmpdir
\* (cli.py 228-236)
Conc_Enter(i, d) ==
    /\ inv[i].pc = "compile"
    /\ d \in mkdtemp(fs)
    /\ fs' = Mkdir(Mkdir(fs, PathParent(inv[i].output_pdf)), d)
    /\ inv' = [inv EXCEPT ![i].pc = "copy", ![i].tmpdir = d]
    /\ UNCHANGED <<concFrame, halves, mover>>

InvTex(i) == PathJoin(inv[i].tmpdir,
                      RelPath(<<inv[i].tex_file.parts[Len(inv[i].tex_file.parts)]>>))

InvPdf(i) == with_suffix(InvTex(i), ".pdf")

InvAux(i) == with_suffix(InvTex(i), ".aux")

\* shutil.copy(tex_file, temp_tex) and the copy of mermaid-images
\* (cli.py 237-246)
Conc_CopyTex(i) ==
    /\ inv[i].pc = "copy"
    /\ LET copied == CopyFile(fs, inv[i].tex_file, InvTex(i))
       IN  fs' = IF Exists(MermaidSrc)
                 THEN CopyTree(copied, MermaidSrc,
                               PathJoin(inv[i].tmpdir, RelPath(<<Dir("mermaid-images")>>)))
                 ELSE copied
    /\ inv' = [inv EXCEPT ![i].pc = "run"]
    /\ UNCHANGED <<concFrame, halves, mover>>

\* subprocess.run(["latexmk", ...], cwd=tmpdir_path)  (cli.py 249-260)
Conc_Run(i, exit, produced) ==
    /\ inv[i].pc = "run"
    /\ LET aux == WriteFile(fs, InvAux(i), FileEntry("latexmk", i, TRUE))
       IN  fs' = IF produced
                 THEN WriteFile(aux, InvPdf(i), FileEntry("latexmk", i, exit = 0))
                 ELSE aux
    /\ inv' = [inv EXCEPT ![i].pc = "ran", ![i].result = exit]
    /\ UNCHANGED <<concFrame, halves, mover>>

\* the file at a final PDF path whose halves were written by h[1] and h[2]
PdfEntry(h) == FileEntry("latexmk", h[1], h[1] = h[2])

SetHalves(hs, p, h) == [q \in DOMAIN hs \cup {p} |-> IF q = p THEN h ELSE hs[q]]

\* shutil.move(temp_pdf, output_pdf) and the end of the with block
\* (cli.py 262-274).  On one filesystem the move is os.rename; across
\* filesystems it is a copy, which here begins (output_pdf is truncated and
\* the first half written) and is completed by Conc_MoveEnd.
Conc_Finish(i) ==
    /\ inv[i].pc = "ran"
    /\ IF inv[i].result # 0
       THEN /\ fs' = ExitTemporaryDirectory(fs, inv[i].tmpdir, "return")
            /\ inv' = [inv EXCEPT ![i].pc = "False"]
            /\ UNCHANGED <<halves, mover>>
       ELSE IF ~Exists(InvPdf(i))
       THEN /\ fs' = ExitTemporaryDirectory(fs, inv[i].tmpdir, "raise")
            /\ inv' = [inv EXCEPT ![i].pc = "raise"]
            /\ UNCHANGED <<halves, mover>>
       ELSE IF same_fs
       THEN /\ fs' = ExitTemporaryDirectory(MoveFile(fs, InvPdf(i), inv[i].output_pdf),
                                            inv[i].tmpdir, "return")
            /\ halves' = SetHalves(halves, inv[i].output_pdf, <<i, i>>)
            /\ mover' = i
            /\ inv' = [inv EXCEPT ![i].pc = "True"]
       ELSE /\ halves' = SetHalves(halves, inv[i].output_pdf, <<i, 0>>)
            /\ fs' = WriteFile(fs, inv[i].output_pdf, PdfEntry(<<i, 0>>))
            /\ inv' = [inv EXCEPT ![i].pc = "moving"]
            /\ mover' = mover
    /\ UNCHANGED concFrame

\* the rest of a copying shutil.move: the second half is written at its
\* offset, the source is unlinked, and the with block ends
Conc_MoveEnd(i) ==
    /\ inv[i].pc = "moving"
    /\ LET h == <<halves[inv[i].output_pdf][1], i>>
       IN  /\ halves' = SetHalves(halves, inv[i].output_pdf, h)
           /\ fs' = ExitTemporaryDirectory(WriteFile(fs, inv[i].output_pdf, PdfEntry(h)),
                                           inv[i].tmpdir, "return")
    /\ mover' = i
    /\ inv' = [inv EXCEPT ![i].pc = "True"]
    /\ UNCHANGED concFrame

NextConc ==
    \/ \E i \in Invocations, d \in TmpNames : Conc_Enter(i, d)
    \/ \E i \in Invocations : Conc_CopyTex(i)
    \/ \E i \in Invocations, exit \in {0, 1}, produced \in BOOLEAN : Conc_Run(i, exit, produced)
    \/ \E i \in Invocations : Conc_Finish(i)
    \/ \E i \in Invocations : Conc_MoveEnd(i)

SpecConc == InitConc /\ [][NextConc]_vars

(***************************************************************************)
(* Properties of path resolution (SpecPaths)                               *)
(***************************************************************************)
TexFolder(root) == PathJoin(root, RelPath(<<Dir("TEX")>>))

PdfFolder(root) == PathJoin(root, RelPath(<<Dir("PDF")>>))

RecentFolder(root) == PathJoin(root, RelPath(<<Dir("recent")>>))

\* the source lies under the repository root
UnderRoot == repo_root # None /\ IsPath(RelToRoot(source_file, repo_root))

SourceRel == RelToRoot(source_file, repo_root).parts

StartsSpecial(parts) == parts # <<>> /\ parts[1] \in SpecialFolders

\* the root-relative path with one leading PDF/TEX/recent segment removed
Unorganized(parts) == IF StartsSpecial(parts) THEN Tail(parts) ELSE parts

\* C3 as stated: for every source under the root, the LaTeX path relative to
\* <root>/TEX and the PDF path relative to <root>/PDF equal the source's
\* root-relative path with only the extension replaced.
C3_AsStated ==
    (ppc = "resolved" /\ UnderRoot /\ paths.kind = "paths") =>
        /\ relative_to(paths.tex, TexFolder(repo_root))
             = with_suffix(RelPath(SourceRel), ".tex")
        /\ relative_to(paths.pdf, PdfFolder(repo_root))
             = with_suffix(RelPath(SourceRel), ".pdf")

\* C3 amended: for every source under the root that is not the root itself
\* or one of <root>/PDF, <root>/TEX, <root>/recent, get_mirror_paths returns
\* a LaTeX path whose component relative to <root>/TEX and a PDF path whose
\* component relative to <root>/PDF equal the source's root-relative path
\* with a leading PDF/TEX/recent segment removed and the extension replaced.
C3_MirrorsRelativePath ==
    (ppc = "resolved" /\ UnderRoot /\ Unorganized(SourceRel) # <<>>) =>
        /\ paths.kind = "paths"
        /\ relative_to(paths.tex, TexFolder(repo_root))
             = with_suffix(RelPath(Unorganized(SourceRel)), ".tex")
        /\ relative_to(paths.pdf, PdfFolder(repo_root))
             = with_suffix(RelPath(Unorganized(SourceRel)), ".pdf")

C3_Witness ==
    /\ ppc = "resolved"
    /\ UnderRoot
    /\ SourceRel = <<Dir("PDF"), Dir("notes"), Name("plan", ".md")>>
    /\ paths.kind = "paths"
    /\ paths.tex = PathJoin(TexFolder(repo_root),
                            RelPath(<<Dir("notes"), Name("plan", ".tex")>>))

\* C4 as stated: for every relative path p and special folder F, resolving
\* <root>/F/p yields the same output path set as resolving <root>/p.
C4_AsStated ==
    (ppc = "organized" /\ paths.kind = "paths") => org_paths = paths

\* C4 amended: for every relative path p that does not itself begin with
\* PDF, TEX or recent, resolving <root>/F/p (F a special folder) yields the
\* same output path set as resolving <root>/p; and resolving again a path
\* produced by a previous resolution yields the same output path set.
C4_Idempotent ==
    /\ (ppc = "organized" /\ ~StartsSpecial(SourceRel)) => org_paths = paths
    /\ ppc = "again" => org_paths = paths

C4_Witness ==
    /\ ppc = "organized"
    /\ SourceRel = <<Dir("notes"), Name("plan", ".md")>>
    /\ org_source = PathJoin(RecentFolder(repo_root), RelPath(SourceRel))
    /\ org_paths.kind = "paths"

\* C6: with no repository root the convenience path is absent and both
\* targets are in the source file's own directory; with a repository root
\* the LaTeX target is under <root>/TEX, the PDF target under <root>/PDF and
\* the convenience path is exactly <root>/recent.
C6_OutputPathSetInvariant ==
    (ppc = "resolved" /\ paths.kind = "paths") =>
        /\ repo_root = None =>
              /\ paths.recent = None
              /\ PathParent(paths.tex) = PathParent(source_file)
              /\ PathParent(paths.pdf) = PathParent(source_file)
        /\ repo_root # None =>
              /\ IsPath(relative_to(paths.tex, TexFolder(repo_root)))
              /\ IsPath(relative_to(paths.pdf, PdfFolder(repo_root)))
              /\ paths.recent = RecentFolder(repo_root)

(***************************************************************************)
(* Properties of repository location (SpecLocate)                          *)
(***************************************************************************)
\* the directories from p upward; the filesystem root is AbsPath(<<>>)
Ancestors(p, withRoot) ==
    {AbsPath(SubSeq(p.parts, 1, k)) : k \in (IF withRoot THEN 0 ELSE 1)..Len(p.parts)}

ContainsMarker(d) ==
    \E m \in MarkerNames : PathJoin(d, RelPath(<<Dir(m)>>)) \in DOMAIN fs

\* the deepest directory of chain that contains a marker, or None
Nearest(chain) ==
    LET marked == {d \in chain : ContainsMarker(d)}
    IN  IF marked = {} THEN None
        ELSE CHOOSE d \in marked : \A e \in marked : Len(e.parts) <= Len(d.parts)

Stages == {"convert_md_to_tex", "convert_md_to_pdf_direct", "compile_tex_to_pdf"}

\* C1: a stage or a convenience copy is attempted only if every earlier
\* stage returned success (the compile stage only right after a successful
\* convert_md_to_tex), and a stage that returns failure is the last call of
\* the run, which ends with main returning 1.
C1_FailFast ==
    \A i \in 1..Len(calls) :
        /\ (calls[i].fn \in Stages /\ i < Len(calls)) => calls[i].result = "True"
        /\ calls[i].fn = "compile_tex_to_pdf" =>
              (i = 2 /\ mode = "both" /\ calls[1] = Call("convert_md_to_tex", "True"))
        /\ (calls[i].fn \in Stages /\ calls[i].result = "False") =>
              (i = Len(calls) /\ pc = "done" /\ ret = Return(1))

C1_Witness ==
    /\ pc = "done"
    /\ mode = "both"
    /\ paths.kind = "paths"
    /\ paths.recent # None
    /\ calls = <<Call("convert_md_to_tex", "True"), Call("compile_tex_to_pdf", "False")>>
    /\ ret = Return(1)

CompileRunning ==
    /\ calls # <<>>
    /\ calls[Len(calls)] = Call("compile_tex_to_pdf", "running")

\* C2: once a call of compile_tex_to_pdf has ended, by return or by
\* exception, neither its temporary directory nor anything below it exists.
C2_TmpDirRemoved ==
    (tmpdir # None /\ ~CompileRunning) =>
        \A p \in DOMAIN fs : ~Below(p, tmpdir)

\* the compiler exited zero without producing the PDF, and the move raised
C2_Witness ==
    /\ pc = "done"
    /\ tmpdir # None
    /\ result = 0
    /\ Latexmk \in ToSet(procs)
    /\ calls[Len(calls)] = Call("compile_tex_to_pdf", "raise")
    /\ ret = Raise("FileNotFoundError")
    /\ tmpdir \notin DOMAIN fs

\* a regular file written at p by the current invocation
ProducedHere(p) ==
    /\ p \in DOMAIN fs
    /\ fs[p].type = "file"
    /\ fs[p].run = runs

Succeeded(fns) ==
    \E i \in 1..Len(calls) : calls[i].fn \in fns /\ calls[i].result = "True"

LastName(p) == RelPath(<<p.parts[Len(p.parts)]>>)

RecentCopy(target) == PathJoin(paths.recent, LastName(target))

\* C7 as stated: a file is at the LaTeX target, the PDF target or in the
\* convenience folder as a result of this run only if the stage producing
\* it has reported success.
C7_AsStated ==
    paths.kind = "paths" =>
        /\ ProducedHere(paths.tex) => Succeeded({"convert_md_to_tex"})
        /\ ProducedHere(paths.pdf) =>
              Succeeded({"convert_md_to_pdf_direct", "compile_tex_to_pdf"})
        /\ paths.recent # None =>
              /\ ProducedHere(RecentCopy(paths.tex)) => Succeeded({"convert_md_to_tex"})
              /\ ProducedHere(RecentCopy(paths.pdf)) =>
                    Succeeded({"convert_md_to_pdf_direct", "compile_tex_to_pdf"})

\* C7 amended: a file is at the PDF target of a compile stage, or in the
\* convenience folder, as a result of this run only if the stage producing
\* it has reported success: a compile stage that fails writes nothing to
\* the PDF target.  The two pandoc stages hand their final destination to
\* the converter, so a file found there after such a stage failed is one the
\* converter itself left behind.
C7_NoPromotionAfterFailure ==
    paths.kind = "paths" =>
        /\ (mode = "both" /\ ProducedHere(paths.pdf)) => Succeeded({"compile_tex_to_pdf"})
        /\ (ProducedHere(paths.tex) /\ ~Succeeded({"convert_md_to_tex"})) =>
              fs[paths.tex].by = "pandoc"
        /\ (ProducedHere(paths.pdf) /\ ~Succeeded({"convert_md_to_pdf_direct",
                                                    "compile_tex_to_pdf"})) =>
              (mode = "pdf-only" /\ fs[paths.pdf].by = "pandoc")
        /\ paths.recent # None =>
              /\ ProducedHere(RecentCopy(paths.tex)) => Succeeded({"convert_md_to_tex"})
              /\ ProducedHere(RecentCopy(paths.pdf)) =>
                    Succeeded({"convert_md_to_pdf_direct", "compile_tex_to_pdf"})

\* the compiler failed after writing a PDF into the temporary directory,
\* and the PDF that was at the target before the run is still the one there
C7_Witness ==
    /\ pc = "done"
    /\ mode = "both"
    /\ result = 1
    /\ calls = <<Call("convert_md_to_tex", "True"), Call("compile_tex_to_pdf", "False")>>
    /\ paths.pdf \in DOMAIN fs
    /\ fs[paths.pdf] = UserFile
    /\ ProducedHere(paths.tex)

\* the required tools that are not installed
Absent == ToSet(RequiredTools) \ installed

ValidInput == args.input # None /\ IsFile(PathResolve(args.input))

InputSuffix == args.input.parts[Len(args.input.parts)].suffix

\* C8: with an existing input file and both --pdf-only and --tex-only set
\* (all required tools being installed), main returns 1 and has invoked no
\* external process.
C8_BothFlagsNoProcess ==
    (pc = "done" /\ Absent = {} /\ ~args.check_deps /\ ValidInput
       /\ args.pdf_only /\ args.tex_only) =>
        /\ ret = Return(1)
        /\ procs = <<>>

\* C9: for an input that is missing, is a directory or has an unrecognized
\* extension, or a --repo-root that is not a directory (all required tools
\* being installed), main reports that error and returns 1 having invoked
\* no external process.
C9_ValidationBeforeTools ==
    (pc = "done" /\ Absent = {} /\ ~args.check_deps /\ args.input # None) =>
        /\ ~Exists(PathResolve(args.input)) =>
              (ret = Return(1) /\ errors = <<"file not found">> /\ procs = <<>>)
        /\ IsDir(PathResolve(args.input)) =>
              (ret = Return(1) /\ errors = <<"not a file">> /\ procs = <<>>)
        /\ (ValidInput /\ InputSuffix \notin {".md", ".tex"}) =>
              (ret = Return(1) /\ errors = <<"ValueError">> /\ procs = <<>>)
        /\ (ValidInput /\ InputSuffix = ".md" /\ ~(args.pdf_only /\ args.tex_only)
              /\ args.repo_root # None /\ ~IsDir(PathResolve(args.repo_root))) =>
              (ret = Return(1) /\ errors = <<"--repo-root must be a directory">>
                 /\ procs = <<>>)

\* C10: when a required tool is absent no converter or compiler is ever
\* invoked and every invocation returns 1; an invocation that reaches the
\* build (no --check-deps, the input an existing file) reports exactly the
\* absent tools, as does --check-deps, and reports the same list as the
\* --check-deps invocation before it.
C10_MissingDependency ==
    Absent # {} =>
        /\ \A i \in 1..Len(procs) : procs[i].cmd = "which"
        /\ calls = <<>>
        /\ pc = "done" => ret = Return(1)
        /\ (pc = "done" /\ (args.check_deps \/ ValidInput)) =>
              /\ reported.kind = "missing"
              /\ ToSet(reported.tools) = Absent
        /\ (pc = "done" /\ ~args.check_deps /\ ValidInput /\ runs > 1) =>
              reported = last_check

C10_Witness ==
    /\ pc = "done"
    /\ runs = 2
    /\ Absent = {"mmdc"}
    /\ ~args.check_deps
    /\ ValidInput
    /\ ret = Return(1)
    /\ last_check = MissingList(<<"mmdc">>)
    /\ reported = last_check

StageTrue(fn) == \E i \in 1..Len(calls) : calls[i] = Call(fn, "True")

\* every stage of the selected build mode returned success, or --check-deps
\* found all tools
WorkSucceeded ==
    IF args.check_deps THEN Absent = {}
    ELSE \/ mode = "both" /\ StageTrue("convert_md_to_tex") /\ StageTrue("compile_tex_to_pdf")
         \/ mode = "pdf-only" /\ StageTrue("convert_md_to_pdf_direct")
         \/ mode = "tex-only" /\ StageTrue("convert_md_to_tex")

\* C11: main returns 0 exactly when the requested work succeeded and returns
\* 1 in every other case.
C11_ExitCodes ==
    pc = "done" =>
        /\ ret \in {Return(0), Return(1)}
        /\ ret = Return(0) <=> WorkSucceeded

\* C17: every call of convert_md_to_tex, convert_md_to_pdf_direct and
\* compile_tex_to_pdf ends by returning True or False (never by an exception),
\* and one that returned True ran a process that exited zero and left its
\* artifact at the destination.
C17_StagesReturn ==
    \A i \in 1..Len(calls) :
        calls[i].fn \in Stages =>
            /\ calls[i].result \in {"True", "False", "running"}
            /\ calls[i] = Call("compile_tex_to_pdf", "True") =>
                  (result = 0 /\ IsFile(paths.pdf))
            /\ calls[i] = Call("convert_md_to_tex", "True") => IsFile(paths.tex)
            /\ calls[i] = Call("convert_md_to_pdf_direct", "True") => IsFile(paths.pdf)

(***************************************************************************)
(* The three modes (Spec)                                                  *)
(***************************************************************************)
\* the component get_mirror_paths joins to <root>/TEX and <root>/PDF: the
\* source's path relative to the root without a leading special folder, or
\* the source path itself when it is not under the root
RelComponent ==
    IF UnderRoot THEN RelPath(Unorganized(SourceRel)) ELSE source_file

OnlyCalls(stage, file_type) ==
    \A i \in 1..Len(calls) :
        \/ calls[i].fn = stage
        \/ calls[i] = Call("copy_to_recent", file_type)

\* C13: a run in mode 'pdf-only' calls only convert_md_to_pdf_direct (and the
\* copy of the PDF), runs neither the compiler nor the LaTeX conversion and
\* writes nothing at the LaTeX target; a run in mode 'tex-only' calls only
\* convert_md_to_tex (and the copy of the LaTeX), runs neither the compiler
\* nor the PDF conversion and writes nothing at the PDF target; without a
\* repository root copy_to_recent is never called.
C13_SingleStageModes ==
    /\ mode = "pdf-only" =>
          /\ OnlyCalls("convert_md_to_pdf_direct", "pdf")
          /\ ToSet(procs) \cap {Latexmk, Pandoc("latex")} = {}
          /\ paths.kind = "paths" => ~ProducedHere(paths.tex)
    /\ mode = "tex-only" =>
          /\ OnlyCalls("convert_md_to_tex", "tex")
          /\ ToSet(procs) \cap {Latexmk, Pandoc("pdf")} = {}
          /\ paths.kind = "paths" => ~ProducedHere(paths.pdf)
    /\ repo_root = None =>
          \A i \in 1..Len(calls) : calls[i].fn # "copy_to_recent"

\* /tmp/x.md with no repository marker above it, mode 'pdf-only': only
\* /tmp/x.pdf is produced
C13_Witness ==
    /\ pc = "done"
    /\ mode = "pdf-only"
    /\ ret = Return(0)
    /\ args.input = AbsPath(<<Dir("tmp"), Name("x", ".md")>>)
    /\ repo_root = None
    /\ paths.kind = "paths"
    /\ paths.recent = None
    /\ calls = <<Call("convert_md_to_pdf_direct", "True")>>
    /\ ProducedHere(AbsPath(<<Dir("tmp"), Name("x", ".pdf")>>))
    /\ AbsPath(<<Dir("tmp"), Name("x", ".tex")>>) \notin DOMAIN fs
(***************************************************************************)
(* The convenience copy of a missing target (Spec)                         *)
(***************************************************************************)
Target(file_type) == IF file_type = "tex" THEN paths.tex ELSE paths.pdf

\* C14: when build_markdown_outputs reaches a convenience copy (so every
\* stage has reported success) and the file to copy does not exist, the copy
\* leaves the filesystem exactly as it was (the convenience folder is not
\* created), reports no error and raises nothing, and a build that ends
\* there ends with main returning 0.
C14_MissingTargetNoOp ==
    [][\A file_type \in {"tex", "pdf"} :
          (pc = "copy_" \o file_type /\ Target(file_type) \notin DOMAIN fs) =>
              /\ fs' = fs
              /\ errors' = errors
              /\ pc' \in {"copy_pdf", "done"}
              /\ pc' = "done" => ret' = Return(0)]_vars

\* pandoc exited zero without writing the LaTeX target: the copy was
\* attempted, nothing was created, and the build succeeded
C14_Witness ==
    /\ pc = "done"
    /\ mode = "tex-only"
    /\ ret = Return(0)
    /\ errors = <<>>
    /\ calls = <<Call("convert_md_to_tex", "True"), Call("copy_to_recent", "tex")>>
    /\ paths.recent # None
    /\ paths.tex \notin DOMAIN fs
    /\ paths.recent \notin DOMAIN fs

(***************************************************************************)
(* A source outside the repository root (SpecPaths)                        *)
(***************************************************************************)
\* C16: for an absolute source path that is not under the repository root,
\* get_mirror_paths raises nothing and returns a dictionary with all three
\* entries: the LaTeX and PDF targets are <root>/TEX and <root>/PDF joined
\* with the source's own absolute path (extension replaced) and the
\* convenience path is <root>/recent.
C16_OutsideRootFallback ==
    (/\ ppc = "resolved"
     /\ repo_root # None
     /\ source_file.abs
     /\ IsRaise(RelToRoot(source_file, repo_root))) =>
        /\ paths.kind = "paths"
        /\ paths.tex = PathJoin(TexFolder(repo_root), with_suffix(source_file, ".tex"))
        /\ paths.pdf = PathJoin(PdfFolder(repo_root), with_suffix(source_file, ".pdf"))
        /\ paths.recent = RecentFolder(repo_root)
        /\ IsPath(paths.tex) /\ IsPath(paths.pdf) /\ IsPath(paths.recent)

C16_Witness ==
    /\ ppc = "resolved"
    /\ source_file = AbsPath(<<Dir("other"), Name("plan", ".md")>>)
    /\ repo_root = RepoDir
    /\ paths.kind = "paths"
    /\ paths.tex = AbsPath(<<Dir("other"), Name("plan", ".tex")>>)
    /\ paths.pdf = AbsPath(<<Dir("other"), Name("plan", ".pdf")>>)
    /\ paths.recent = AbsPath(<<Dir("repo"), Dir("recent")>>)

(***************************************************************************)
(* A failing compile stage (Spec)                                          *)
(***************************************************************************)
CompilePcs == {"compile", "compile_copy", "compile_mermaid", "compile_run", "compile_ran"}

\* the path p holds after the step what it held before it, or nothing both times
Untouched(p) ==
    /\ p \in DOMAIN fs' <=> p \in DOMAIN fs
    /\ p \in DOMAIN fs => fs'[p] = fs[p]

\* C18: no step of a call of compile_tex_to_pdf other than the one that ends
\* it with success changes what is at output_pdf or at tex_file; a call that
\* returns failure therefore leaves at both paths what was there before it.
C18_FailureLeavesTargets ==
    [][(pc \in CompilePcs /\ calls'[Len(calls')] # Call("compile_tex_to_pdf", "True")) =>
          (Untouched(paths.pdf) /\ Untouched(paths.tex))]_vars

\* the compiler failed: no PDF at the target before or after, and the LaTeX
\* file is the one the conversion wrote
C18_Witness ==
    /\ pc = "done"
    /\ ret = Return(1)
    /\ result = 1
    /\ Latexmk \in ToSet(procs)
    /\ calls[Len(calls)] = Call("compile_tex_to_pdf", "False")
    /\ paths.pdf \notin DOMAIN fs
    /\ PathParent(paths.pdf) \in DOMAIN fs
    /\ fs[paths.tex] = FileEntry("pandoc", runs, TRUE)
(***************************************************************************)
(* The convenience folder after a sequence of builds (SpecRecent)          *)
(***************************************************************************)
RecentFile(n) == PathJoin(RecentFolder(RepoDir), n)

\* C19: between builds, the convenience folder holds a file <name> exactly
\* when some successful build had a target of that name, and the file is
\* identical to the artifact that the most recent such build wrote at its
\* target.
C19_RecentIsLatestSuccessful ==
    pc = "start" =>
        /\ \A n \in DOMAIN latest :
              /\ latest[n].artifact.type = "file"
              /\ latest[n].artifact.run = latest[n].build
              /\ RecentFile(n) \in DOMAIN fs
              /\ fs[RecentFile(n)] = latest[n].artifact
        /\ \A p \in DOMAIN fs :
              PathParent(p) = RecentFolder(RepoDir) =>
                  RelPath(<<p.parts[Len(p.parts)]>>) \in DOMAIN latest
(***************************************************************************)
(* Two concurrent compile stages (SpecConc)                                *)
(***************************************************************************)
InTmpDir(i) == inv[i].pc \in {"copy", "run", "ran", "moving"}

AllEnded == \A i \in Invocations : inv[i].pc \in {"True", "False", "raise"}

\* C15: in every interleaving of two invocations, the two compile stages
\* never work in the same temporary directory; every file the compiler has
\* written is either a final PDF or lies in the temporary directory of the
\* invocation that wrote it, which is still at work there (so none is
\* overwritten by the other invocation and none is next to the sources or
\* the artifacts); and once both have ended with the same output_pdf, the
\* file there is the complete PDF of the invocation that moved last.
C15_ConcurrentCompiles ==
    /\ \A i, j \in Invocations :
          (i # j /\ InTmpDir(i) /\ InTmpDir(j)) => inv[i].tmpdir # inv[j].tmpdir
    /\ \A p \in DOMAIN fs :
          (fs[p].by = "latexmk" /\ \A i \in Invocations : p # inv[i].output_pdf) =>
              \E i \in Invocations :
                  /\ InTmpDir(i)
                  /\ Below(p, inv[i].tmpdir)
                  /\ fs[p].run = i
    /\ (AllEnded /\ inv[1].output_pdf = inv[2].output_pdf /\ mover # 0) =>
          /\ inv[1].output_pdf \in DOMAIN fs
          /\ fs[inv[1].output_pdf] = FileEntry("latexmk", mover, TRUE)
====
